---- MODULE Spec2Model ----
(***************************************************************************)
(* Face attendance resolver of Backend_FaceLog:                            *)
(*   face_recognition_app/services.py  recognize_faces_in_stream           *)
(*   face_recognition_app/admin.py     FaceEncodingAdmin.save_model        *)
(*   attendance/models.py              Ficha, AttendanceSession, Attendance*)
(*   attendance/views.py               SessionViewSet,                     *)
(*                                     ManualAttendanceUpdateView          *)
(*   attendance/serializers.py         FichaSerializer.update,             *)
(*                                     AttendanceLogUpdateSerializer       *)
(*   excuses/views.py                  ExcuseViewSet                       *)
(*   excuses/serializers.py            ExcuseReviewSerializer              *)
(* Time is counted in seconds.  A face embedding is a point on a line and  *)
(* face_distance is the distance between two points.                       *)
(***************************************************************************)
EXTENDS Integers, Sequences, FiniteSets, TLC

\* ---------------------------------------------------------------- bounds
NumStudents == 2      \* users with role 'student': ids 1..NumStudents
MaxVec == 2           \* embeddings are the points 0..MaxVec
MaxFaces == 2         \* faces detected in one frame: 0..MaxFaces
MaxGrace == 1         \* permisividad of a session: 0..MaxGrace minutes
SessionStart == 1     \* date + start_time of the session of SpecSeq

\* ------------------------------------------------------ program constants
SecondsPerMinute == 60
CacheTimeout == 3600
EncodingLength == 128
confidence_threshold == 1

Students == 1..NumStudents
Fichas == {1, 2}
SessionIds == {1, 2}
Procs == {"w1", "w2"}
Reqs == {"r1", "r2"}
Instructors == {1, 2}
Vecs == 0..MaxVec
Null == -1
EmptyEncoding == -1
MaxExcuses == 2       \* Excuse rows ever inserted: 0..MaxExcuses
MaxWrites == 2        \* saves of one record by the calls are counted up to MaxWrites
STATUS_CHOICES == {"present", "absent", "late", "excused"}

\* The instants at which the clock is observed: 0, and the end of each grace
\* period of a session starting at 0 or at SessionStart, and one second later.
Instants ==
    {0, 1} \cup {SessionStart + SecondsPerMinute * g + d : g \in 0..MaxGrace, d \in 0..1}

VARIABLES
    now,            \* timezone.now()
    fichaStudents,  \* Ficha.students, per ficha
    sessions,       \* AttendanceSession rows
    attendance,     \* Attendance rows, keyed by <<session, student>>
    faceEncoding,   \* FaceEncoding rows, one per user
    cache,          \* django.core.cache: ficha_encodings_<id>
    proc,           \* the running calls of recognize_faces_in_stream
    writes,         \* per Attendance row: saves done by face verification
    firstWrite,     \* per Attendance row: the row as first saved by one
    created,        \* per (session, student): Attendance rows inserted
    excuses,        \* Excuse rows, in order of insertion
    req             \* the running requests of students and instructors

vars == <<now, fichaStudents, sessions, attendance, faceEncoding, cache, proc,
          writes, firstWrite, created, excuses, req>>

\* ------------------------------------------------------------------ rows
NoSession == [exists |-> FALSE, ficha |-> 1, start |-> 0, permisividad |-> 0]
NoAttendance ==
    [exists |-> FALSE, status |-> "absent", check_in_time |-> Null,
     verified_by_face |-> FALSE]
NewAttendance ==
    [exists |-> TRUE, status |-> "absent", check_in_time |-> Null,
     verified_by_face |-> FALSE]
NoEntry == [present |-> FALSE, encodings |-> <<>>, student_ids |-> <<>>, exp |-> 0]
IdleCall ==
    [pc |-> "idle", session_id |-> 1, ficha |-> 1, faces |-> 0, i |-> 0, face |-> 0,
     known_encodings |-> <<>>, known_student_ids |-> <<>>,
     match |-> "none", matched_student_id |-> 0, transition |-> "none",
     recognized_students |-> <<>>, result |-> "none"]

NoExcuse == [student |-> 0, session |-> 0, status |-> "none", reviewed_by |-> 0]

\* A request that is not running.  While one runs, key is the Attendance
\* row or the (session, student) it is about and instance that row as the
\* view read it; excuse is the Excuse it reviews and excuse_instance that row
\* as the view read it; user is who sent it and status the status it submits.
IdleRequest ==
    [pc |-> "idle", key |-> <<1, 1>>, instance |-> NoAttendance, excuse |-> 0,
     excuse_instance |-> NoExcuse, user |-> 0, status |-> "none"]

Keys == SessionIds \X Students

\* ------------------------------------------------------- pure functions
RECURSIVE SeqOfSet(_)
\* A queryset of users as a list, in ascending id order.
SeqOfSet(S) ==
    IF S = {} THEN <<>>
    ELSE LET m == CHOOSE x \in S : \A y \in S : x <= y
         IN <<m>> \o SeqOfSet(S \ {m})

\* numpy.linalg.norm(a - b) for two embeddings.
Distance(a, b) == IF a >= b THEN a - b ELSE b - a

face_distance(encodings, face) ==
    [j \in 1..Len(encodings) |-> Distance(encodings[j], face)]

compare_facesStrict(encodings, face, tolerance) ==
    [j \in 1..Len(encodings) |-> Distance(encodings[j], face) < tolerance]

\* face_recognition.compare_faces: list(face_distance(...) <= tolerance)
compare_faces(encodings, face, tolerance) ==
    [j \in 1..Len(encodings) |-> face_distance(encodings, face)[j] <= tolerance]

\* [i for i, match in enumerate(matches) if match]
MatchedIndices(matches) ==
    SelectSeq([j \in 1..Len(matches) |-> j], LAMBDA j : matches[j])

MatchedStudentIdFirst(known_student_ids, matched_indices) ==
    IF Len(matched_indices) >= 1 THEN known_student_ids[matched_indices[1]] ELSE 0

\* matched_student_id: the student of a single match, None (0) otherwise.
MatchedStudentId(known_student_ids, matched_indices) ==
    IF Len(matched_indices) = 1 THEN known_student_ids[matched_indices[1]] ELSE 0

\* The branch of the per-face log message.
MatchOutcome(matched_indices) ==
    IF Len(matched_indices) = 1 THEN "Unique"
    ELSE IF Len(matched_indices) > 1 THEN "Ambiguous"
    ELSE "NoMatch"

\* session_start_datetime + timedelta(minutes=session.permisividad)
GracePeriodEnd(session) == session.start + SecondsPerMinute * session.permisividad

NewStatusStrict(t, session) ==
    IF t < GracePeriodEnd(session) THEN "present" ELSE "late"

\* new_status = 'present' if now <= grace_period_end else 'late'
NewStatus(t, session) ==
    IF t <= GracePeriodEnd(session) THEN "present" ELSE "late"

\* len(student.face_encoding_data.get_encoding_array())
EncodingArrayLen(row) == IF row.encoding = EmptyEncoding THEN 0 ELSE EncodingLength

LoadableStudentsInactiveToo(f) ==
    {s \in fichaStudents[f] :
        /\ faceEncoding[s].exists
        /\ EncodingArrayLen(faceEncoding[s]) = EncodingLength}

\* The students of a ficha whose encoding is loaded: it exists, is active and
\* has the length of the model.
LoadableStudents(f) ==
    {s \in fichaStudents[f] :
        /\ faceEncoding[s].exists
        /\ faceEncoding[s].is_active
        /\ EncodingArrayLen(faceEncoding[s]) = EncodingLength}

KnownStudentIds(f) == SeqOfSet(LoadableStudents(f))

KnownEncodings(f) ==
    [j \in 1..Len(KnownStudentIds(f)) |-> faceEncoding[KnownStudentIds(f)[j]].encoding]

cache_keyGlobal(ficha) == 1

\* cache_key = f"ficha_encodings_{ficha.id}": one key for each ficha.
cache_key(ficha) == ficha

CacheGetNoExpiry(f) ==
    IF cache[cache_key(f)].present THEN cache[cache_key(f)] ELSE NoEntry

\* cache.get(cache_key): the entry, unless it is missing or has expired.
CacheGet(f) ==
    IF cache[cache_key(f)].present /\ now < cache[cache_key(f)].exp
    THEN cache[cache_key(f)] ELSE NoEntry

\* ------------------------------------------------------------ the state
\* A database in use: one ficha with its students, one scheduled session
\* (session 2 does not exist), an absent Attendance row for every student who
\* was in the ficha when the session was created, one FaceEncoding per
\* student, nothing cached and no call running.
InitOf(starts, graces, creations, encodings) ==
    /\ now = 0
    /\ fichaStudents = [f \in Fichas |-> Students]
    /\ \E st \in starts, g \in graces :
          sessions = [sid \in SessionIds |->
                        IF sid = 1
                        THEN [exists |-> TRUE, ficha |-> 1, start |-> st,
                              permisividad |-> g]
                        ELSE NoSession]
    /\ \E atCreation \in creations :
          attendance = [k \in Keys |->
                          IF k[1] = 1 /\ k[2] \in atCreation
                          THEN NewAttendance ELSE NoAttendance]
    /\ \E enc \in encodings :
          faceEncoding = [s \in Students |->
                            [exists |-> TRUE, is_active |-> TRUE, encoding |-> enc[s]]]
    /\ cache = [f \in Fichas |-> NoEntry]
    /\ proc = [p \in Procs |-> IdleCall]
    /\ writes = [k \in Keys |-> 0]
    /\ firstWrite = [k \in Keys |-> NoAttendance]
    /\ created = [k \in Keys |-> IF attendance[k].exists THEN 1 ELSE 0]
    /\ excuses = <<>>
    /\ req = [r \in Reqs |-> IdleRequest]

dbVars == <<fichaStudents, sessions, attendance, faceEncoding>>
ghostVars == <<writes, firstWrite, created>>
appVars == <<excuses, req>>

\* ------------------------------------------- recognize_faces_in_stream
\* One call is the record proc[p].  The frame holds proc[p].faces faces; the
\* embedding of face i is drawn when the loop reaches it and is held in
\* proc[p].face.  match and transition are what the call logs for the face it
\* handled last.

\* Lines 38-51: the ficha of the session and cache.get.
Begin(p, sid) ==
    /\ proc[p].pc = "idle"
    /\ LET c == [proc[p] EXCEPT !.session_id = sid]
       IN IF ~sessions[sid].exists
          THEN proc' = [proc EXCEPT ![p] =
                          [c EXCEPT !.pc = "done", !.result = "error_no_ficha"]]
          ELSE LET f == sessions[sid].ficha
                   cached_data == CacheGet(f)
               IN IF cached_data.present
                  THEN proc' = [proc EXCEPT ![p] =
                                  [c EXCEPT !.pc = "detect", !.ficha = f,
                                            !.known_encodings = cached_data.encodings,
                                            !.known_student_ids = cached_data.student_ids]]
                  ELSE proc' = [proc EXCEPT ![p] = [c EXCEPT !.pc = "load", !.ficha = f]]
    /\ UNCHANGED <<now, dbVars, cache, ghostVars, appVars>>

\* Lines 53-69: the active encodings of the ficha's students, from the database.
LoadEncodings(p) ==
    /\ proc[p].pc = "load"
    /\ LET c == proc[p]
           f == c.ficha
       IN IF KnownEncodings(f) = <<>>
          THEN proc' = [proc EXCEPT ![p] =
                          [c EXCEPT !.pc = "done", !.result = "error_no_encodings"]]
          ELSE proc' = [proc EXCEPT ![p] =
                          [c EXCEPT !.pc = "cache_set",
                                    !.known_encodings = KnownEncodings(f),
                                    !.known_student_ids = KnownStudentIds(f)]]
    /\ UNCHANGED <<now, dbVars, cache, ghostVars, appVars>>

\* The first n elements of a list.
Prefix(seq, n) == SubSeq(seq, 1, n)

OnLoadFailedCaching(c, key, encodings, student_ids) ==
    [c EXCEPT ![key] = [present |-> TRUE, encodings |-> encodings,
                        student_ids |-> student_ids, exp |-> now + CacheTimeout]]

\* except Exception (lines 145-147), raised while the encodings are loaded:
\* cache.set (line 71) is not reached and the cache is left as it is.
OnLoadFailed(c, key, encodings, student_ids) == c

\* Lines 53-65 and 145-147: a query of the load loop fails after n encodings
\* have been appended to the lists; the call returns the unexpected error.
LoadFail(p, n) ==
    /\ proc[p].pc = "load"
    /\ n <= Len(KnownStudentIds(proc[p].ficha))
    /\ LET f == proc[p].ficha
           encodings == Prefix(KnownEncodings(f), n)
           student_ids == Prefix(KnownStudentIds(f), n)
       IN /\ cache' = OnLoadFailed(cache, cache_key(f), encodings, student_ids)
          /\ proc' = [proc EXCEPT ![p].pc = "done",
                                  ![p].result = "error_unexpected",
                                  ![p].known_encodings = encodings,
                                  ![p].known_student_ids = student_ids]
    /\ UNCHANGED <<now, dbVars, ghostVars, appVars>>

\* Line 71: cache.set(cache_key, (known_encodings, known_student_ids), 3600)
CacheSet(p) ==
    /\ proc[p].pc = "cache_set"
    /\ cache' = [cache EXCEPT ![cache_key(proc[p].ficha)] =
                    [present |-> TRUE,
                     encodings |-> proc[p].known_encodings,
                     student_ids |-> proc[p].known_student_ids,
                     exp |-> now + CacheTimeout]]
    /\ proc' = [proc EXCEPT ![p].pc = "detect"]
    /\ UNCHANGED <<now, dbVars, ghostVars, appVars>>

\* Lines 75-83: face detection finds n faces in the frame; face is the first.
Detect(p, n, face) ==
    /\ proc[p].pc = "detect"
    /\ IF n = 0
       THEN proc' = [proc EXCEPT ![p].pc = "done", ![p].result = "error_no_face"]
       ELSE proc' = [proc EXCEPT ![p].pc = "resolve", ![p].faces = n, ![p].i = 1,
                                 ![p].face = face, ![p].recognized_students = <<>>]
    /\ UNCHANGED <<now, dbVars, cache, ghostVars, appVars>>

NextFaceAbort(c, face) == [c EXCEPT !.pc = "done", !.result = "recognized_students"]

\* Line 84: the loop goes to the next face, of embedding face, or line 140:
\* the call returns the recognized students.
NextFace(c, face) ==
    IF c.i = c.faces
    THEN [c EXCEPT !.pc = "done", !.result = "recognized_students"]
    ELSE [c EXCEPT !.pc = "resolve", !.i = c.i + 1, !.face = face]

OnDoesNotExistCreating(att, k) == [att EXCEPT ![k] = NewAttendance]

\* except Attendance.DoesNotExist (lines 136-138): log the error and continue.
OnDoesNotExist(att, k) == att

ShouldTransitionUnlessExcused(record) == record.status # "excused"

ShouldTransitionAlways(record) == TRUE

\* if attendance_record.status == 'absent' (line 112)
ShouldTransition(record) == record.status = "absent"

AttendanceKeyAnySession(session_id, student_id) == <<1, student_id>>

\* Attendance.objects.get(session_id=session_id, student_id=matched_student_id)
\* (line 109): the record of the student for the session of the call.
AttendanceKey(session_id, student_id) == <<session_id, student_id>>

\* Lines 84-112 and 133-138: match one face and look its student's record up.
Resolve(p, next) ==
    /\ proc[p].pc = "resolve"
    /\ LET c == proc[p]
           matches == compare_faces(c.known_encodings, c.face, confidence_threshold)
           matched_indices == MatchedIndices(matches)
           matched_student_id == MatchedStudentId(c.known_student_ids, matched_indices)
           k == AttendanceKey(c.session_id, matched_student_id)
           d == [c EXCEPT !.match = MatchOutcome(matched_indices),
                          !.matched_student_id = matched_student_id]
       IN IF matched_student_id # 0
          THEN IF ~attendance[k].exists
               THEN /\ attendance' = OnDoesNotExist(attendance, k)
                    /\ proc' = [proc EXCEPT ![p] =
                          NextFace([d EXCEPT !.transition = "RecordMissing"], next)]
               ELSE /\ attendance' = attendance
                    /\ IF ShouldTransition(attendance[k])
                       THEN proc' = [proc EXCEPT ![p] = [d EXCEPT !.pc = "save"]]
                       ELSE proc' = [proc EXCEPT ![p] =
                               NextFace([d EXCEPT !.transition = "NoOp"], next)]
          ELSE /\ attendance' = attendance
               /\ proc' = [proc EXCEPT ![p] =
                     NextFace([d EXCEPT !.transition = "none"], next)]
    /\ UNCHANGED <<now, fichaStudents, sessions, faceEncoding, cache, ghostVars, appVars>>

SavedRecordStatusOnly(t, new_status) ==
    [exists |-> TRUE, status |-> new_status, check_in_time |-> Null,
     verified_by_face |-> FALSE]

\* Lines 122-125: the three fields are set on the object and written by one
\* attendance_record.save().
SavedRecord(t, new_status) ==
    [exists |-> TRUE, status |-> new_status, check_in_time |-> t,
     verified_by_face |-> TRUE]

\* Lines 128-132: the entry of recognized_students for the record saved; the
\* full name of the student is left out.
recognized_student(student_id, new_status) ==
    [id |-> student_id, status |-> new_status]

\* Lines 113-132: classify the check-in and save the record.
Save(p, next) ==
    /\ proc[p].pc = "save"
    /\ LET c == proc[p]
           k == AttendanceKey(c.session_id, c.matched_student_id)
           session == sessions[c.session_id]
           new_status == NewStatus(now, session)
           record == SavedRecord(now, new_status)
       IN /\ attendance' = [attendance EXCEPT ![k] = record]
          /\ writes' = [writes EXCEPT ![k] = IF @ < MaxWrites THEN @ + 1 ELSE @]
          /\ firstWrite' = IF writes[k] = 0
                           THEN [firstWrite EXCEPT ![k] = record]
                           ELSE firstWrite
          /\ proc' = [proc EXCEPT ![p] =
                NextFace([c EXCEPT !.transition = new_status,
                                   !.recognized_students =
                                       Append(@, recognized_student(
                                                    c.matched_student_id, new_status))],
                         next)]
    /\ UNCHANGED <<now, fichaStudents, sessions, faceEncoding, cache, created, appVars>>

\* except Exception (lines 145-147), raised inside the loop over the faces:
\* the query of line 109 or the save of line 125 fails, nothing is written
\* for the face in hand and the call returns the unexpected error; what the
\* call saved for the faces before stays saved.
LoopFail(p) ==
    /\ proc[p].pc \in {"resolve", "save"}
    /\ proc' = [proc EXCEPT ![p].pc = "done", ![p].result = "error_unexpected"]
    /\ UNCHANGED <<now, dbVars, cache, ghostVars, appVars>>

\* Lines 69, 81, 140-147: the call returns.
Return(p) ==
    /\ proc[p].pc = "done"
    /\ proc' = [proc EXCEPT ![p] = IdleCall]
    /\ UNCHANGED <<now, dbVars, cache, ghostVars, appVars>>

\* ------------------------------------------------------ the environment
\* Time passes.
Tick(t) ==
    /\ t > now
    /\ now' = t
    /\ UNCHANGED <<dbVars, cache, proc, ghostVars, appVars>>

\* FaceEncodingAdmin.save_model: the administrator saves the FaceEncoding of
\* a user with the form's is_active and profile image.  The image is "same"
\* (not in changed_data), "cleared", "noface" (no single face found in it) or
\* "new", with the embedding found in it.
save_model(s, is_active, image, encoding) ==
    /\ faceEncoding' = [faceEncoding EXCEPT ![s] =
          [exists |-> TRUE,
           is_active |-> is_active,
           encoding |-> IF image = "new" THEN encoding
                        ELSE IF image = "cleared" THEN EmptyEncoding
                        ELSE @.encoding]]
    /\ UNCHANGED <<now, fichaStudents, sessions, attendance, cache, proc, ghostVars, appVars>>

\* FichaSerializer.update: the students of a ficha are set to student_ids.
FichaUpdate(f, student_ids) ==
    /\ fichaStudents' = [fichaStudents EXCEPT ![f] = student_ids]
    /\ UNCHANGED <<now, sessions, attendance, faceEncoding, cache, proc, ghostVars, appVars>>

attendance_recordsFirstOnly(session, students_in_ficha) ==
    [j \in 1..(IF Len(students_in_ficha) = 0 THEN 0 ELSE 1) |->
        <<session, students_in_ficha[j]>>]

\* [Attendance(session=session, student=student) for student in students_in_ficha]
attendance_records(session, students_in_ficha) ==
    [j \in 1..Len(students_in_ficha) |-> <<session, students_in_ficha[j]>>]

\* The number of elements of the list records that are equal to k.
Occurrences(records, k) == Cardinality({j \in 1..Len(records) : records[j] = k})

\* Attendance.objects.bulk_create(attendance_records): one row for each
\* element of the list, with the defaults of the model.
bulk_create(att, records) ==
    [k \in Keys |-> IF Occurrences(records, k) > 0 THEN NewAttendance ELSE att[k]]

\* SessionViewSet.perform_create: an instructor of the ficha creates the
\* session sid (a new primary key) and one Attendance row for each student of
\* the ficha; anybody else is refused.  The serializer refuses a second
\* session of the same ficha at the same date and start_time.
perform_create(sid, f, start, permisividad, is_instructor) ==
    /\ ~sessions[sid].exists
    /\ \A other \in SessionIds :
          sessions[other].exists =>
              sessions[other].ficha # f \/ sessions[other].start # start
    /\ IF is_instructor
       THEN LET students_in_ficha == SeqOfSet(fichaStudents[f])
                records == attendance_records(sid, students_in_ficha)
            IN /\ sessions' = [sessions EXCEPT ![sid] =
                                  [exists |-> TRUE, ficha |-> f, start |-> start,
                                   permisividad |-> permisividad]]
               /\ attendance' = bulk_create(attendance, records)
               /\ created' = [k \in Keys |-> created[k] + Occurrences(records, k)]
       ELSE UNCHANGED <<sessions, attendance, created>>
    /\ UNCHANGED <<now, fichaStudents, faceEncoding, cache, proc, writes, firstWrite, appVars>>

\* ------------------------------------------------- the instructor's views
\* SessionViewSet is a ModelViewSet: its update and partial_update save the
\* fields of AttendanceSessionSerializer that are not read-only, date,
\* start_time and permisividad among them, on the session sid, for an
\* instructor of its ficha.  The serializer refuses a date and start_time
\* that another session of the ficha has.
SessionUpdate(sid, start, permisividad, is_instructor) ==
    /\ sessions[sid].exists
    /\ \A other \in SessionIds \ {sid} :
          sessions[other].exists =>
              sessions[other].ficha # sessions[sid].ficha \/ sessions[other].start # start
    /\ IF is_instructor
       THEN sessions' = [sessions EXCEPT ![sid].start = start,
                                         ![sid].permisividad = permisividad]
       ELSE UNCHANGED sessions
    /\ UNCHANGED <<now, fichaStudents, attendance, faceEncoding, cache, proc, ghostVars, appVars>>

\* ManualAttendanceUpdateView, first half: get_object() reads the Attendance
\* row k and checks that the user is an instructor of its ficha, and the
\* serializer validates the status against the choices of the field.
ManualGet(r, k, status, is_instructor) ==
    /\ req[r].pc = "idle"
    /\ attendance[k].exists
    /\ status \in STATUS_CHOICES
    /\ IF is_instructor
       THEN req' = [req EXCEPT ![r] = [IdleRequest EXCEPT !.pc = "manual_save", !.key = k,
                                          !.instance = attendance[k], !.status = status]]
       ELSE UNCHANGED req
    /\ UNCHANGED <<now, dbVars, cache, proc, ghostVars, excuses>>

\* AttendanceLogUpdateSerializer: status is the only field the request sets
\* on the instance.
ManualUpdated(instance, status) == [instance EXCEPT !.status = status]

\* ManualAttendanceUpdateView, second half: the serializer sets the status
\* on the instance and instance.save() writes every field of the instance.
ManualSave(r) ==
    /\ req[r].pc = "manual_save"
    /\ attendance' = [attendance EXCEPT ![req[r].key] =
                          ManualUpdated(req[r].instance, req[r].status)]
    /\ req' = [req EXCEPT ![r] = IdleRequest]
    /\ UNCHANGED <<now, fichaStudents, sessions, faceEncoding, cache, proc, ghostVars, excuses>>

\* -------------------------------------------------------------- excuses
\* The Excuse rows of the student for the session.
ExcusesOf(student, sid) ==
    {e \in 1..Len(excuses) : excuses[e].student = student /\ excuses[e].session = sid}

\* ExcuseViewSet.perform_create, lines 82-99: the student is in the ficha of
\* the session, has an Attendance row for it with status 'absent', and has
\* no Excuse for it yet.
MayCreateExcuse(student, sid) ==
    /\ student \in fichaStudents[sessions[sid].ficha]
    /\ attendance[<<sid, student>>].exists
    /\ attendance[<<sid, student>>].status = "absent"
    /\ ExcusesOf(student, sid) = {}

\* ExcuseViewSet.create up to line 99: the checks of perform_create on the
\* request of a student for the session sid; a request that fails one is
\* refused.
ExcuseCheck(r, student, sid) ==
    /\ req[r].pc = "idle"
    /\ sessions[sid].exists
    /\ IF MayCreateExcuse(student, sid)
       THEN req' = [req EXCEPT ![r] = [IdleRequest EXCEPT !.pc = "excuse_save",
                                          !.key = <<sid, student>>, !.user = student]]
       ELSE UNCHANGED req
    /\ UNCHANGED <<now, dbVars, cache, proc, ghostVars, excuses>>

\* ExcuseViewSet.perform_create, line 101: serializer.save(student=user)
\* inserts the Excuse, pending and not reviewed.
ExcuseSave(r) ==
    /\ req[r].pc = "excuse_save"
    /\ Len(excuses) < MaxExcuses
    /\ excuses' = Append(excuses, [student |-> req[r].key[2], session |-> req[r].key[1],
                                   status |-> "pending", reviewed_by |-> 0])
    /\ req' = [req EXCEPT ![r] = IdleRequest]
    /\ UNCHANGED <<now, dbVars, cache, proc, ghostVars>>

\* ExcuseReviewSerializer.validate_status
validate_status(value) == value \in {"approved", "rejected"}

\* ExcuseViewSet.partial_update, lines 122-124: get_object() reads the Excuse
\* e and the serializer validates the status the instructor user submits.
ReviewGet(r, e, status, user) ==
    /\ req[r].pc = "idle"
    /\ e \in 1..Len(excuses)
    /\ IF validate_status(status)
       THEN req' = [req EXCEPT ![r] = [IdleRequest EXCEPT !.pc = "review_check", !.excuse = e,
                                          !.excuse_instance = excuses[e],
                                          !.user = user, !.status = status]]
       ELSE UNCHANGED req
    /\ UNCHANGED <<now, dbVars, cache, proc, ghostVars, excuses>>

\* ExcuseViewSet.perform_update, lines 104-116: get_object() reads the Excuse
\* again; the user must be an instructor of its ficha and the excuse pending.
ReviewCheck(r, is_instructor) ==
    /\ req[r].pc = "review_check"
    /\ IF is_instructor /\ excuses[req[r].excuse].status = "pending"
       THEN req' = [req EXCEPT ![r].pc = "review_save"]
       ELSE req' = [req EXCEPT ![r] = IdleRequest]
    /\ UNCHANGED <<now, dbVars, cache, proc, ghostVars, excuses>>

\* The comment of line 118: when an excuse is saved as approved, the model
\* sets the Attendance row of its student and session to 'excused'.
ExcuseModelSave(att, excuse) ==
    LET k == <<excuse.session, excuse.student>>
    IN IF excuse.status = "approved" /\ att[k].exists
       THEN [att EXCEPT ![k].status = "excused"]
       ELSE att

\* ExcuseViewSet.perform_update, line 119: serializer.save(reviewed_by=user)
\* sets status and reviewed_by on the instance that partial_update read and
\* saves it.
ReviewSave(r) ==
    /\ req[r].pc = "review_save"
    /\ LET reviewed == [req[r].excuse_instance EXCEPT !.status = req[r].status,
                                                      !.reviewed_by = req[r].user]
       IN /\ excuses' = [excuses EXCEPT ![req[r].excuse] = reviewed]
          /\ attendance' = ExcuseModelSave(attendance, reviewed)
    /\ req' = [req EXCEPT ![r] = IdleRequest]
    /\ UNCHANGED <<now, fichaStudents, sessions, faceEncoding, cache, proc, ghostVars>>

\* --------------------------------------------------------- specifications
\* One step of the call p, on a frame of up to maxFaces faces.
Call(p, maxFaces) ==
    \/ \E sid \in SessionIds : Begin(p, sid)
    \/ LoadEncodings(p)
    \/ \E n \in 0..NumStudents : LoadFail(p, n)
    \/ CacheSet(p)
    \/ \E n \in 0..maxFaces, face \in Vecs : Detect(p, n, face)
    \/ \E next \in Vecs : Resolve(p, next)
    \/ \E next \in Vecs : Save(p, next)
    \/ Return(p)

\* The administrator activates or deactivates an encoding, or replaces or
\* clears its image.
Admin ==
    \E s \in Students, a \in BOOLEAN, image \in {"same", "cleared", "new"}, e \in Vecs :
        save_model(s, a, image, e)

\* The students who were in the ficha when the session was created: ids are
\* given in order of registration, so they are the first n students.
AtCreation == {1..n : n \in 0..NumStudents}

\* Concurrent calls by the workers of the server, each on a frame of at most
\* one face, around the start of a session without grace period.
Init == InitOf({0}, {0}, AtCreation, [Students -> Vecs])

Next ==
    \/ \E p \in Procs : Call(p, 1)
    \/ \E t \in {u \in Instants : u <= 1} : Tick(t)

Spec == Init /\ [][Next]_vars

\* One worker handling one frame after the other, over every schedule of the
\* session, with the students' embeddings two apart.
InitSeq ==
    InitOf({SessionStart}, 0..MaxGrace, AtCreation, {[s \in Students |-> 2 * (s - 1)]})

NextSeq ==
    \/ Call("w1", MaxFaces)
    \/ \E t \in Instants : Tick(t)

SpecSeq == InitSeq /\ [][NextSeq]_vars

\* One worker, with the administrator changing the encodings between and
\* during its calls.
InitRoster == InitOf({0}, {0}, {Students}, {[s \in Students |-> 0]})

NextRoster ==
    \/ Call("w1", 1)
    \/ Admin

SpecRoster == InitRoster /\ [][NextRoster]_vars

\* One worker, with the instructors creating a second session and setting
\* the students of a ficha to the first n registered students.
InitSchedule == InitOf({0}, {0}, {Students}, {[s \in Students |-> 2 * (s - 1)]})

NextSchedule ==
    \/ Call("w1", 1)
    \/ \E f \in Fichas, student_ids \in AtCreation : FichaUpdate(f, student_ids)
    \/ \E sid \in SessionIds, f \in Fichas, start \in {0, SessionStart},
          is_instructor \in BOOLEAN :
            perform_create(sid, f, start, 0, is_instructor)

SpecSchedule == InitSchedule /\ [][NextSchedule]_vars

\* The instants around the expiry of a cache entry set at 0 or at 1.
CacheInstants == {0, 1, CacheTimeout - 1, CacheTimeout, CacheTimeout + 1}

\* Two fichas, each with its students and its session: every student is in
\* ficha 1, and all but student 1 are in ficha 2 as well; session 1 is of
\* ficha 1 and session 2 of ficha 2, both created with their Attendance rows.
InitCache ==
    /\ now = 0
    /\ fichaStudents = [f \in Fichas |-> IF f = 1 THEN Students ELSE Students \ {1}]
    /\ sessions = [sid \in SessionIds |->
                      [exists |-> TRUE, ficha |-> sid, start |-> 0, permisividad |-> 0]]
    /\ attendance = [k \in Keys |->
                        IF k[1] = 1 \/ k[2] # 1 THEN NewAttendance ELSE NoAttendance]
    /\ faceEncoding = [s \in Students |->
                          [exists |-> TRUE, is_active |-> TRUE, encoding |-> s - 1]]
    /\ cache = [f \in Fichas |-> NoEntry]
    /\ proc = [p \in Procs |-> IdleCall]
    /\ writes = [k \in Keys |-> 0]
    /\ firstWrite = [k \in Keys |-> NoAttendance]
    /\ created = [k \in Keys |-> IF attendance[k].exists THEN 1 ELSE 0]
    /\ excuses = <<>>
    /\ req = [r \in Reqs |-> IdleRequest]

\* One step of the call p, on a frame in which no face is found.
CallNoFace(p) ==
    \/ \E sid \in SessionIds : Begin(p, sid)
    \/ LoadEncodings(p)
    \/ \E n \in 0..NumStudents : LoadFail(p, n)
    \/ CacheSet(p)
    \/ Detect(p, 0, 0)
    \/ Return(p)

\* Concurrent calls for the two fichas, over the lifetime of a cache entry.
NextCache ==
    \/ \E p \in Procs : CallNoFace(p)
    \/ \E t \in CacheInstants : Tick(t)

SpecCache == InitCache /\ [][NextCache]_vars

\* Two fichas and one worker handling frames without a face, with the
\* administrator deactivating and reactivating encodings and clearing their
\* images, before and after the cache entries expire.
InitLoad == InitCache

NextLoad ==
    \/ CallNoFace("w1")
    \/ \E s \in Students, is_active \in BOOLEAN, image \in {"same", "cleared"} :
          save_model(s, is_active, image, 0)
    \/ Tick(CacheTimeout)

SpecLoad == InitLoad /\ [][NextLoad]_vars

\* One worker handling frames of up to MaxFaces faces at the start of the
\* session, with queries that may fail while the faces are handled.
InitFail == InitOf({0}, {0}, {Students}, {[s \in Students |-> 2 * (s - 1)]})

NextFail ==
    \/ Call("w1", MaxFaces)
    \/ LoopFail("w1")

SpecFail == InitFail /\ [][NextFail]_vars

\* One step of the manual update r of the Attendance row k.
Manual(r, k) ==
    \/ \E status \in {"absent", "excused"}, is_instructor \in BOOLEAN :
          ManualGet(r, k, status, is_instructor)
    \/ ManualSave(r)

\* One worker, with an instructor creating the second session and setting
\* the status of the first student in the first session by hand.
InitManual == InitOf({0}, {0}, {Students}, {[s \in Students |-> 2 * (s - 1)]})

NextManual ==
    \/ Call("w1", 1)
    \/ Manual("r1", <<1, 1>>)
    \/ \E sid \in SessionIds, f \in Fichas : perform_create(sid, f, SessionStart, 0, TRUE)

SpecManual == InitManual /\ [][NextManual]_vars

\* One worker, with the instructors creating the second session and editing
\* the start and the permisividad of the sessions.
InitSession == InitOf({0}, {0}, {Students}, {[s \in Students |-> 2 * (s - 1)]})

NextSession ==
    \/ Call("w1", 1)
    \/ \E sid \in SessionIds, f \in Fichas : perform_create(sid, f, SessionStart, 0, TRUE)
    \/ \E sid \in SessionIds, start \in {0, SessionStart}, permisividad \in 0..MaxGrace,
          is_instructor \in BOOLEAN :
            SessionUpdate(sid, start, permisividad, is_instructor)

SpecSession == InitSession /\ [][NextSession]_vars

\* Students sending excuses and instructors reviewing them, two requests at
\* a time, with an instructor setting the status of Attendance rows by hand.
InitExcuse == InitOf({0}, {0}, {Students}, {[s \in Students |-> 2 * (s - 1)]})

NextExcuse ==
    \/ \E r \in Reqs, student \in Students, sid \in SessionIds : ExcuseCheck(r, student, sid)
    \/ \E r \in Reqs : ExcuseSave(r)
    \/ \E r \in Reqs, e \in 1..MaxExcuses, status \in {"pending", "approved", "rejected"},
          user \in Instructors :
            ReviewGet(r, e, status, user)
    \/ \E r \in Reqs, is_instructor \in BOOLEAN : ReviewCheck(r, is_instructor)
    \/ \E r \in Reqs : ReviewSave(r)
    \/ \E status \in {"absent", "present"} : ManualGet("r1", <<1, 1>>, status, TRUE)
    \/ ManualSave("r1")

SpecExcuse == InitExcuse /\ [][NextExcuse]_vars

\* ----------------------------------------------------------------- claims
\* The known embeddings within the threshold of the face the call c is at.
Candidates(c) ==
    {j \in 1..Len(c.known_encodings) :
        Distance(c.known_encodings[j], c.face) <= confidence_threshold}

\* The step is the call p handling the face it is at (lines 84-112, 133-138).
ResolveStep(p) == proc[p].pc = "resolve" /\ proc'[p] # proc[p]

\* The end of the grace period of the session of the Attendance row k.
Boundary(k) == SecondsPerMinute * sessions[k[1]].permisividad + sessions[k[1]].start

\* C1: in a sequential series of face verifications, a record is taken out of
\* 'absent' by exactly one of them: no record is saved twice, and a step
\* leaves every record that is no longer 'absent' as it is, so that the status
\* and check_in_time stay those of the first verification.
C1_SequentialIdempotent ==
    [][\A k \in Keys :
          /\ writes'[k] <= 1
          /\ (attendance[k].exists /\ attendance[k].status # "absent")
                => attendance'[k] = attendance[k]]_vars

\* C1 witness: a student verified at one instant is matched again at a later
\* one, and this second verification is a no-op.
C1_Witness ==
    \E s \in Students :
        /\ writes[<<1, s>>] = 1
        /\ proc["w1"].transition = "NoOp"
        /\ proc["w1"].matched_student_id = s
        /\ attendance[<<1, s>>].check_in_time < now

\* C2 (as claimed): of the concurrent calls that match the same absent
\* student, exactly one saves the record: no record is saved twice.
C2_ExactlyOneWrite == \A k \in Keys : writes[k] <= 1

\* C3 (as claimed): the status and check_in_time saved by the first face
\* verification of a record are never overwritten by another one.
C3_FirstWriteWins ==
    \A k \in Keys : writes[k] >= 1 => attendance[k] = firstWrite[k]

\* C4 (as claimed): at most one reload of the embeddings of a ficha is in
\* flight at any time.
C4_SingleFlight ==
    \A f \in Fichas :
        Cardinality({p \in Procs : /\ proc[p].pc \in {"load", "cache_set"}
                                   /\ proc[p].ficha = f}) <= 1

\* C5: a record verified by face is 'present' when its check_in_time is at or
\* before session start plus permisividad minutes, and 'late' when it is after.
C5_GraceBoundary ==
    \A k \in Keys :
        (attendance[k].exists /\ attendance[k].verified_by_face) =>
            /\ attendance[k].check_in_time <= Boundary(k)
                  => attendance[k].status = "present"
            /\ attendance[k].check_in_time > Boundary(k)
                  => attendance[k].status = "late"

\* C5 witness: one student checked in exactly at the end of the grace period
\* and is present, another one second later and is late.
C5_Witness ==
    \E s, t \in Students :
        /\ attendance[<<1, s>>].verified_by_face
        /\ attendance[<<1, s>>].check_in_time = Boundary(<<1, s>>)
        /\ attendance[<<1, s>>].status = "present"
        /\ attendance[<<1, t>>].verified_by_face
        /\ attendance[<<1, t>>].check_in_time = Boundary(<<1, t>>) + 1
        /\ attendance[<<1, t>>].status = "late"

\* C6: when the face a call handles is within the threshold of two or more
\* known embeddings, the call selects no student, does not go on to save a
\* record, and leaves the records of all the candidates unchanged.
C6_AmbiguityNeverMutates ==
    [][\A p \in Procs :
          (ResolveStep(p) /\ Cardinality(Candidates(proc[p])) >= 2) =>
              /\ proc'[p].matched_student_id = 0
              /\ proc'[p].pc # "save"
              /\ proc'[p].transition = "none"
              /\ \A j \in Candidates(proc[p]) :
                    LET k == <<proc[p].session_id, proc[p].known_student_ids[j]>>
                    IN attendance'[k] = attendance[k]]_vars

\* C6 witness: a call has handled a face that is within the threshold of the
\* embeddings of two students who are both 'absent', and moved on.
C6_Witness ==
    \E p \in Procs :
        /\ proc[p].match = "Ambiguous"
        /\ proc[p].pc = "done"
        /\ Len(proc[p].known_student_ids) >= 2
        /\ \A s \in Students : attendance[<<1, s>>].exists
                               /\ attendance[<<1, s>>].status = "absent"

\* C7: the outcome for a face is decided by the number of known embeddings at
\* a distance <= threshold: none gives NoMatch, one gives Unique with the
\* student of that embedding, two or more give Ambiguous; a student is
\* selected in the Unique case only.
C7_MatchOutcome ==
    [][\A p \in Procs :
          ResolveStep(p) =>
              LET cands == Candidates(proc[p])
                  n == Cardinality(cands)
              IN /\ n = 0 => /\ proc'[p].match = "NoMatch"
                             /\ proc'[p].matched_student_id = 0
                 /\ n = 1 => /\ proc'[p].match = "Unique"
                             /\ \E j \in cands :
                                   proc'[p].matched_student_id =
                                       proc[p].known_student_ids[j]
                 /\ n >= 2 => /\ proc'[p].match = "Ambiguous"
                              /\ proc'[p].matched_student_id = 0]_vars

\* C7 witness: a face exactly at the threshold distance of one known embedding,
\* and farther from every other one, selected the student of that embedding.
C7_Witness ==
    \E p \in Procs :
        /\ proc[p].pc = "save"
        /\ proc[p].match = "Unique"
        /\ Len(proc[p].known_student_ids) >= 2
        /\ \E j \in 1..Len(proc[p].known_student_ids) :
              /\ proc[p].known_student_ids[j] = proc[p].matched_student_id
              /\ Distance(proc[p].known_encodings[j], proc[p].face)
                    = confidence_threshold

\* C8 (as claimed): a call that takes the known embeddings of its ficha from
\* the cache gets the embeddings that are active at that moment.
C8_NextCallSeesRoster ==
    [][\A p \in Procs :
          (proc[p].pc = "idle" /\ proc'[p].pc = "detect") =>
              /\ proc'[p].known_student_ids = KnownStudentIds(proc'[p].ficha)
              /\ proc'[p].known_encodings = KnownEncodings(proc'[p].ficha)]_vars

\* C9 (as claimed): a call that starts when its ficha has no active embedding
\* does not go on to face detection.
C9_EmptyRosterShortCircuits ==
    [][\A p \in Procs :
          (/\ proc[p].pc = "idle"
           /\ proc'[p].pc # "idle"
           /\ sessions[proc'[p].session_id].exists
           /\ LoadableStudents(sessions[proc'[p].session_id].ficha) = {})
              => proc'[p].pc # "detect"]_vars

\* C10: when the single candidate of a face has no Attendance row for the
\* session, the call logs the record as missing, creates and changes no row,
\* and goes on to the next face (or returns its list after the last one).
C10_RecordMissing ==
    [][\A p \in Procs :
          (/\ ResolveStep(p)
           /\ \E j \in Candidates(proc[p]) :
                 /\ Candidates(proc[p]) = {j}
                 /\ ~attendance[<<proc[p].session_id,
                                  proc[p].known_student_ids[j]>>].exists)
              => /\ attendance' = attendance
                 /\ proc'[p].transition = "RecordMissing"
                 /\ proc[p].i < proc[p].faces =>
                       proc'[p].pc = "resolve" /\ proc'[p].i = proc[p].i + 1
                 /\ proc[p].i = proc[p].faces =>
                       /\ proc'[p].pc = "done"
                       /\ proc'[p].result = "recognized_students"]_vars

\* C10 witness: the call found the record of a matched student missing and is
\* at the next face of the frame, with no row created for that student.
C10_Witness ==
    /\ proc["w1"].pc = "resolve"
    /\ proc["w1"].i >= 2
    /\ proc["w1"].transition = "RecordMissing"
    /\ proc["w1"].matched_student_id # 0
    /\ ~attendance[<<1, proc["w1"].matched_student_id>>].exists

\* C11 (as claimed): no step of a recognition call changes a record whose
\* status is already 'present', 'late' or 'excused'.
C11_RecordedNeverChanged ==
    [][\A k \in Keys :
          (/\ attendance[k].exists
           /\ attendance[k].status \in {"present", "late", "excused"}
           /\ proc' # proc)
              => attendance'[k] = attendance[k]]_vars

\* C12 (as claimed): the list a recognition call returns has one entry for
\* each face detected in the frame, whatever the outcome for that face.
C12_OneEntryPerFace ==
    \A p \in Procs :
        proc[p].result = "recognized_students" =>
            Len(proc[p].recognized_students) = proc[p].faces

EntryAge(f) == now - (cache[f].exp - CacheTimeout)

\* The step is the call p looking its ficha's encodings up in the cache.
LookupStep(p) ==
    /\ proc[p].pc = "idle"
    /\ proc'[p].pc # "idle"
    /\ sessions[proc'[p].session_id].exists

\* C14: a call whose ficha has a cache entry younger than the timeout of one
\* hour takes the entry's lists and goes on to detection without loading from
\* the database; a call whose ficha has no entry, or one older than the
\* timeout, goes to load the encodings from the database.
C14_ReloadIffNoFreshEntry ==
    [][\A p \in Procs :
          LookupStep(p) =>
              LET f == sessions[proc'[p].session_id].ficha
              IN /\ (cache[f].present /\ EntryAge(f) < CacheTimeout)
                       => /\ proc'[p].pc = "detect"
                          /\ proc'[p].known_encodings = cache[f].encodings
                          /\ proc'[p].known_student_ids = cache[f].student_ids
                 /\ (~cache[f].present \/ EntryAge(f) > CacheTimeout)
                       => proc'[p].pc = "load"]_vars

\* C14 witness: a call is loading from the database while the cache still
\* holds an entry of its ficha that is older than the timeout.
C14_Witness ==
    \E p \in Procs :
        /\ proc[p].pc = "load"
        /\ cache[proc[p].ficha].present
        /\ EntryAge(proc[p].ficha) > CacheTimeout

\* C15: a load of the encodings that fails returns an error to the caller and
\* leaves the cache as it is; the cache entry of a ficha is written only by a
\* call that has loaded the ficha's encodings completely, and holds exactly
\* the lists of that load.
C15_NoPartialCacheEntry ==
    [][/\ \A p \in Procs :
            /\ (proc[p].pc = "load" /\ proc'[p].pc = "done")
                  => /\ proc'[p].result \in {"error_unexpected", "error_no_encodings"}
                     /\ cache' = cache
            /\ (proc[p].pc = "load" /\ proc'[p].pc = "cache_set")
                  => /\ proc'[p].known_encodings = KnownEncodings(proc[p].ficha)
                     /\ proc'[p].known_student_ids = KnownStudentIds(proc[p].ficha)
       /\ \A f \in Fichas :
            cache'[f] # cache[f] =>
                \E p \in Procs :
                    /\ proc[p].pc = "cache_set"
                    /\ proc[p].ficha = f
                    /\ proc'[p].pc = "detect"
                    /\ cache'[f].present
                    /\ cache'[f].encodings = proc[p].known_encodings
                    /\ cache'[f].student_ids = proc[p].known_student_ids]_vars

\* C15 witness: a load failed after one of the two encodings of the ficha,
\* the call holds the error, and the cache has no entry for the ficha.
C15_Witness ==
    \E p \in Procs :
        /\ proc[p].pc = "done"
        /\ proc[p].result = "error_unexpected"
        /\ Len(proc[p].known_student_ids) >= 1
        /\ Len(proc[p].known_student_ids) < Len(KnownStudentIds(proc[p].ficha))
        /\ ~cache[proc[p].ficha].present

\* C16: the cache entry of a ficha holds the encodings of that ficha's
\* students and of nobody else, however the reloads of the two fichas
\* interleave; and a call that is reloading a ficha can always take its next
\* step, whatever the other call is doing.
C16_CacheIsolation ==
    /\ \A f \in Fichas :
          cache[f].present =>
              /\ cache[f].student_ids = KnownStudentIds(f)
              /\ cache[f].encodings = KnownEncodings(f)
    /\ \A p \in Procs :
          /\ proc[p].pc = "load" => ENABLED LoadEncodings(p)
          /\ proc[p].pc = "cache_set" => ENABLED CacheSet(p)

\* C16 witness: the two calls are reloading different fichas at the same
\* time, both about to write their entry.
C16_Witness ==
    /\ proc["w1"].pc = "cache_set"
    /\ proc["w2"].pc = "cache_set"
    /\ proc["w1"].ficha # proc["w2"].ficha
    /\ \A f \in Fichas : ~cache[f].present

\* C17: every record is either as it was created ('absent', no check_in_time,
\* not verified by face) or as a face verification saved it ('present' or
\* 'late', with the check_in_time and verified by face): no state shows a
\* record with only some of the three fields changed.
C17_AllOrNothingUpdate ==
    \A k \in Keys :
        attendance[k].exists =>
            \/ /\ attendance[k].status = "absent"
               /\ attendance[k].check_in_time = Null
               /\ ~attendance[k].verified_by_face
            \/ /\ attendance[k].status \in {"present", "late"}
               /\ attendance[k].check_in_time # Null
               /\ attendance[k].check_in_time <= now
               /\ attendance[k].verified_by_face

\* C17 witness: a record has been taken out of 'absent' by one face
\* verification, at the present instant.
C17_Witness ==
    \E k \in Keys :
        /\ writes[k] = 1
        /\ attendance[k].status \in {"present", "late"}
        /\ attendance[k].check_in_time = now
        /\ attendance[k].verified_by_face

\* The step creates the session sid.
CreatesSession(sid) == ~sessions[sid].exists /\ sessions'[sid].exists

\* C18: the creation of a session inserts one Attendance row, 'absent', not
\* verified and without check_in_time, for each student who is in the
\* session's ficha at that moment, and none for anybody else; and never is
\* more than one row inserted for a (session, student).
C18_OneAbsentRecordPerStudent ==
    [][/\ \A sid \in SessionIds :
            CreatesSession(sid) =>
                \A s \in Students :
                    IF s \in fichaStudents[sessions'[sid].ficha]
                    THEN /\ attendance'[<<sid, s>>] = NewAttendance
                         /\ created'[<<sid, s>>] = 1
                    ELSE /\ ~attendance'[<<sid, s>>].exists
                         /\ created'[<<sid, s>>] = 0
       /\ \A k \in Keys : created'[k] <= 1]_vars

\* C18 witness: session 2 was created for a ficha that had lost a student
\* since session 1: it has a row for each student of the ficha, all
\* 'absent', and none for the student who had left.
C18_Witness ==
    /\ sessions[2].exists
    /\ fichaStudents[sessions[2].ficha] # {}
    /\ fichaStudents[sessions[2].ficha] # Students
    /\ \A s \in Students :
          attendance[<<2, s>>].exists <=> s \in fichaStudents[sessions[2].ficha]
    /\ \A s \in fichaStudents[sessions[2].ficha] : attendance[<<2, s>>] = NewAttendance

\* C19: no step of a recognition call inserts or deletes an Attendance row:
\* the set of (session, student) that have a row is the same after the step
\* as before it.
C19_CallKeepsRecordSet ==
    [][proc' # proc =>
          /\ {k \in Keys : attendance'[k].exists} = {k \in Keys : attendance[k].exists}
          /\ created' = created]_vars

\* C19 witness: a call for the second session has ended after matching a
\* student who joined the ficha after the session was created; the student
\* still has no row for that session, and another student's row was saved.
C19_Witness ==
    /\ proc["w1"].pc = "done"
    /\ proc["w1"].session_id = 2
    /\ proc["w1"].transition = "RecordMissing"
    /\ sessions[2].exists
    /\ ~attendance[<<2, proc["w1"].matched_student_id>>].exists
    /\ \E s \in Students : writes[<<2, s>>] = 1

\* The students the call c has taken out of 'absent' in the frame it is at.
RecognizedIds(c) == {c.recognized_students[j].id : j \in 1..Len(c.recognized_students)}

\* C20: when a face of a frame has as single candidate a student whom an
\* earlier face of the same frame has already taken out of 'absent', the
\* face is matched to that student all the same, and the verification is a
\* no-op: nothing is saved and no record changes, so that the student has one
\* transition for the frame.
C20_SecondDetectionIsNoOp ==
    [][\A p \in Procs :
          (/\ ResolveStep(p)
           /\ \E j \in Candidates(proc[p]) :
                 /\ Candidates(proc[p]) = {j}
                 /\ proc[p].known_student_ids[j] \in RecognizedIds(proc[p]))
              => /\ proc'[p].match = "Unique"
                 /\ proc'[p].matched_student_id \in RecognizedIds(proc[p])
                 /\ proc'[p].transition = "NoOp"
                 /\ proc'[p].pc # "save"
                 /\ proc'[p].recognized_students = proc[p].recognized_students
                 /\ attendance' = attendance
                 /\ writes' = writes]_vars

\* C20 witness: a frame of two faces of the same student has been handled:
\* the first face took the student out of 'absent', the second was a no-op,
\* and the record was saved once.
C20_Witness ==
    /\ proc["w1"].pc = "done"
    /\ proc["w1"].faces = 2
    /\ proc["w1"].i = 2
    /\ Len(proc["w1"].recognized_students) = 1
    /\ proc["w1"].transition = "NoOp"
    /\ proc["w1"].matched_student_id \in RecognizedIds(proc["w1"])
    /\ writes[<<1, proc["w1"].matched_student_id>>] = 1

\* C21: the start and the permisividad of a session never change after the
\* session was created.
C21_SessionPolicyImmutable ==
    [][\A sid \in SessionIds :
          sessions[sid].exists /\ sessions'[sid].exists =>
              /\ sessions'[sid].start = sessions[sid].start
              /\ sessions'[sid].permisividad = sessions[sid].permisividad]_vars

\* The call p goes from the load of the encodings to cache.set.
LoadedStep(p) == proc[p].pc = "load" /\ proc'[p].pc = "cache_set"

\* C22: a load that succeeds yields, and cache.set stores, exactly the
\* (student id, embedding) pairs of the students of the ficha whose encoding
\* is active and has the length of the model when it is loaded: one id for
\* each embedding in the same order, every such student once, and no student
\* who is inactive, has no usable embedding or is not in the ficha.
C22_CacheHoldsActiveRoster ==
    [][\A p \in Procs :
          /\ LoadedStep(p) =>
                LET f == proc[p].ficha
                    ids == proc'[p].known_student_ids
                    encodings == proc'[p].known_encodings
                IN /\ Len(ids) = Len(encodings)
                   /\ \A j \in 1..Len(ids) :
                         /\ ids[j] \in fichaStudents[f]
                         /\ faceEncoding[ids[j]].exists
                         /\ faceEncoding[ids[j]].is_active
                         /\ faceEncoding[ids[j]].encoding # EmptyEncoding
                         /\ encodings[j] = faceEncoding[ids[j]].encoding
                         /\ \A i \in 1..Len(ids) : ids[i] = ids[j] => i = j
                   /\ \A s \in fichaStudents[f] :
                         (/\ faceEncoding[s].exists
                          /\ faceEncoding[s].is_active
                          /\ faceEncoding[s].encoding # EmptyEncoding)
                            => \E j \in 1..Len(ids) : ids[j] = s
          /\ (proc[p].pc = "cache_set" /\ proc'[p].pc = "detect") =>
                /\ cache'[proc[p].ficha].present
                /\ cache'[proc[p].ficha].student_ids = proc[p].known_student_ids
                /\ cache'[proc[p].ficha].encodings = proc[p].known_encodings
                /\ \A f \in Fichas \ {proc[p].ficha} : cache'[f] = cache[f]]_vars

\* C22 witness: the entry of the first ficha was stored without the first
\* student, whose image was never cleared and who was therefore inactive
\* when the encodings were loaded; the entry of the second ficha, stored
\* while that student was active again, does not hold the student either,
\* who is not in the second ficha.
C22_Witness ==
    /\ cache[1].present
    /\ cache[1].student_ids = <<2>>
    /\ cache[1].encodings = <<faceEncoding[2].encoding>>
    /\ faceEncoding[1].encoding # EmptyEncoding
    /\ faceEncoding[1].is_active
    /\ 1 \notin fichaStudents[2]
    /\ cache[2].present
    /\ cache[2].exp > cache[1].exp
    /\ cache[2].student_ids = <<2>>

\* C23: an excuse is reviewed at most once: its status changes only from
\* 'pending' and only to 'approved' or 'rejected', and once it is approved or
\* rejected no request changes its status or its reviewer.
C23_ReviewedAtMostOnce ==
    [][\A e \in 1..Len(excuses) :
          /\ excuses[e].status # "pending" =>
                /\ excuses'[e].status = excuses[e].status
                /\ excuses'[e].reviewed_by = excuses[e].reviewed_by
          /\ excuses'[e].status # excuses[e].status =>
                /\ excuses[e].status = "pending"
                /\ excuses'[e].status \in {"approved", "rejected"}]_vars

\* C24: an excuse is inserted only for a student who is in the ficha of the
\* session and whose Attendance row for it exists and is 'absent', and there
\* is never more than one excuse of a student for a session, also when two
\* requests for the same student and session run at the same time.
C24_OneExcusePerStudentAndSession ==
    \A student \in Students, sid \in SessionIds :
        /\ Cardinality(ExcusesOf(student, sid)) <= 1
        /\ ExcusesOf(student, sid) # {} =>
              /\ sessions[sid].exists
              /\ attendance[<<sid, student>>].exists

\* The manual update r saves its Attendance row.
ManualSaveStep(r) == req[r].pc = "manual_save" /\ req'[r].pc = "idle"

\* C25: a manual update by the instructor changes only the status of its
\* Attendance row: the row's check_in_time and verified_by_face, every other
\* row, the sessions and the students of the fichas are as they were before
\* the save.
C25_ManualUpdateChangesOnlyStatus ==
    [][\A r \in Reqs :
          ManualSaveStep(r) =>
              /\ \A k \in Keys :
                    /\ attendance'[k].exists = attendance[k].exists
                    /\ attendance'[k].check_in_time = attendance[k].check_in_time
                    /\ attendance'[k].verified_by_face = attendance[k].verified_by_face
                    /\ k # req[r].key => attendance'[k].status = attendance[k].status
              /\ attendance'[req[r].key].status = req[r].status
              /\ sessions' = sessions
              /\ fichaStudents' = fichaStudents]_vars

\* C27: whatever sessions are created, faces are verified and statuses are
\* set by hand, a record that is 'absent' is not verified by face and has no
\* check-in time.
C27_AbsentIsUnverified ==
    \A k \in Keys :
        (attendance[k].exists /\ attendance[k].status = "absent") =>
            /\ ~attendance[k].verified_by_face
            /\ attendance[k].check_in_time = Null

\* The call p saves the record of the student it matched.
SaveStep(p) == proc[p].pc = "save" /\ proc'[p] # proc[p]

\* C29: when a manual update and a face verification of the same record
\* interleave, the verification does not overwrite a status that the
\* instructor saved after the verification read 'absent', and the manual
\* update does not undo the check-in time and the flag that the
\* verification saved.
C29_NoLostUpdate ==
    [][/\ \A p \in Procs :
            SaveStep(p) =>
                attendance[<<proc[p].session_id, proc[p].matched_student_id>>].status = "absent"
       /\ \A r \in Reqs :
            (ManualSaveStep(r) /\ attendance[req[r].key].verified_by_face) =>
                /\ attendance'[req[r].key].verified_by_face
                /\ attendance'[req[r].key].check_in_time = attendance[req[r].key].check_in_time]_vars

\* C26: the list a call returns holds exactly the students whose record the
\* call took out of 'absent': a save appends the student of the record, which
\* was 'absent', with the status it writes, no other step of the call adds to
\* the list or changes a record, and no student is in the list twice.
C26_RecognizedAreTheTransitioned ==
    [][\A p \in Procs :
          LET c == proc[p]
              k == <<c.session_id, c.matched_student_id>>
              recognized == proc'[p].recognized_students
          IN /\ SaveStep(p) =>
                   /\ attendance[k].status = "absent"
                   /\ attendance'[k].status \in {"present", "late"}
                   /\ recognized = Append(c.recognized_students,
                                          [id |-> k[2], status |-> attendance'[k].status])
                   /\ \A other \in Keys \ {k} : attendance'[other] = attendance[other]
             /\ (proc'[p] # c /\ ~SaveStep(p)) =>
                   /\ attendance' = attendance
                   /\ recognized = c.recognized_students \/ recognized = <<>>
                   /\ proc'[p].pc = "done" => recognized = c.recognized_students
             /\ \A i, j \in 1..Len(recognized) :
                   recognized[i].id = recognized[j].id => i = j]_vars

\* The known encodings of the call c that are within the threshold of the
\* face it is handling.
WithinThreshold(c) ==
    {j \in 1..Len(c.known_encodings) :
        Distance(c.known_encodings[j], c.face) <= confidence_threshold}

\* C28: a call for a session changes only Attendance records of that
\* session, and only the record of a student whose encoding is the single
\* known encoding within the threshold of a face of the frame; every other
\* record is left as it was.
C28_OnlyMatchedRecordsOfTheSession ==
    [][\A p \in Procs, k \in Keys :
          (proc'[p] # proc[p] /\ attendance'[k] # attendance[k]) =>
              /\ k[1] = proc[p].session_id
              /\ Cardinality(WithinThreshold(proc[p])) = 1
              /\ \A j \in WithinThreshold(proc[p]) : proc[p].known_student_ids[j] = k[2]
              /\ \A other \in Keys \ {k} : attendance'[other] = attendance[other]]_vars

\* C28 witness: both sessions have the records of both students, and a call
\* for the second session has recorded one student there: the student's
\* record of the first session and the other student's records are absent.
C28_Witness ==
    \E s \in Students :
        /\ proc["w1"].session_id = 2
        /\ proc["w1"].matched_student_id = s
        /\ attendance[<<2, s>>].status = "present"
        /\ attendance[<<1, s>>].exists
        /\ attendance[<<1, s>>].status = "absent"
        /\ \A other \in Students \ {s} :
              /\ attendance[<<2, other>>].exists
              /\ attendance[<<2, other>>].status = "absent"

\* C30: a call that returns an error has changed no Attendance record: the
\* list of the records it saved, which it keeps while it handles the frame,
\* is empty when it ends with an error, also when the failure comes while a
\* later face of the frame is handled.
C30_ErrorMeansNoChange ==
    \A p \in Procs :
        (proc[p].pc = "done" /\ proc[p].result # "recognized_students") =>
            proc[p].recognized_students = <<>>

====
